---------------------------- MODULE Spec2Model ----------------------------
(***************************************************************************)
(* Model of MRN-Code/multishot: the remote aggregator (src/index.js        *)
(* remote.fn), the local step (src/index.js local.fn), the runners         *)
(* (src/runners.js computeRegression, computeAggregate) and the helpers    *)
(* they use (src/helpers.js).                                              *)
(*                                                                         *)
(* JavaScript values.  A number is an IEEE 754 binary64 value: a finite    *)
(* number is [k |-> "num", neg, m, e], worth (-1)^neg * m * 2^e, and the   *)
(* arithmetic rounds to nearest, ties to even, as the JavaScript operators *)
(* do; there are two zeros.  undefined, NaN and +/-Infinity are records of *)
(* their own.  An array is [array |-> <<...>>], a plain object is          *)
(* [object |-> f] with f a function from its own keys to values.           *)
(***************************************************************************)
EXTENDS Integers, Sequences, FiniteSets, TLC

(***************************************************************************)
(* Bounds of the model.                                                    *)
(***************************************************************************)
\* Participants (local sites) whose result documents the remote sees.
NumSites == 3

Sites == 1..NumSites

(***************************************************************************)
(* JavaScript numbers: IEEE 754 binary64, round to nearest, ties to even.  *)
(* A finite number is [k |-> "num", neg, m, e]: its value is               *)
(* (-1)^neg * m * 2^e, with m a natural number below 2^53 written in       *)
(* limbs, least significant first, and e >= MinExp; m >= 2^52 unless       *)
(* e = MinExp (subnormal numbers and the two zeros).                       *)
(***************************************************************************)
Undefined == [k |-> "undefined"]
NaN == [k |-> "NaN"]
Infinity == [k |-> "Infinity", sign |-> 1]

\* Natural numbers of any size: sequences of limbs below LimbBase, least
\* significant first
LimbBits == 14
LimbBase == 2^LimbBits
\* Bits of the significand, exponent of the least subnormal bit, and the
\* largest exponent of a finite number's least significand bit
Precision == 53
MinExp == -1074
MaxExp == 971

Max(i, j) == IF i > j THEN i ELSE j
Min(i, j) == IF i < j THEN i ELSE j

Limb(a, i) == IF i <= Len(a) THEN a[i] ELSE 0

RECURSIVE BigTrim(_)
\* a without its leading zero limbs
BigTrim(a) ==
  IF Len(a) = 0 \/ a[Len(a)] # 0 THEN a ELSE BigTrim(SubSeq(a, 1, Len(a) - 1))

RECURSIVE BigOfNat(_)
BigOfNat(n) == IF n = 0 THEN <<>> ELSE <<n % LimbBase>> \o BigOfNat(n \div LimbBase)

RECURSIVE BigAddFrom(_, _, _, _)
BigAddFrom(a, b, i, carry) ==
  IF i > Len(a) /\ i > Len(b)
  THEN (IF carry = 0 THEN <<>> ELSE <<carry>>)
  ELSE LET t == Limb(a, i) + Limb(b, i) + carry
       IN  <<t % LimbBase>> \o BigAddFrom(a, b, i + 1, t \div LimbBase)

BigAdd(a, b) == BigAddFrom(a, b, 1, 0)

RECURSIVE BigSubFrom(_, _, _, _)
BigSubFrom(a, b, i, borrow) ==
  IF i > Len(a) THEN <<>>
  ELSE LET t == Limb(a, i) - Limb(b, i) - borrow
       IN  <<t % LimbBase>> \o BigSubFrom(a, b, i + 1, IF t < 0 THEN 1 ELSE 0)

\* a - b, for a >= b
BigSub(a, b) == BigTrim(BigSubFrom(a, b, 1, 0))

RECURSIVE BigCmpFrom(_, _, _)
BigCmpFrom(a, b, i) ==
  IF i = 0 THEN 0
  ELSE IF Limb(a, i) < Limb(b, i) THEN -1
  ELSE IF Limb(a, i) > Limb(b, i) THEN 1
  ELSE BigCmpFrom(a, b, i - 1)

\* -1, 0, 1 as a < b, a = b, a > b
BigCmp(a, b) == BigCmpFrom(a, b, Max(Len(a), Len(b)))

BigIsZero(a) == \A i \in 1..Len(a) : a[i] = 0

RECURSIVE BigColumn(_, _, _, _)
\* the sum of a[i] * b[k + 1 - i] over i..Len(a)
BigColumn(a, b, k, i) ==
  IF i > Len(a) \/ i > k THEN 0
  ELSE Limb(a, i) * Limb(b, k + 1 - i) + BigColumn(a, b, k, i + 1)

RECURSIVE BigMulFrom(_, _, _, _)
BigMulFrom(a, b, k, carry) ==
  IF k > Len(a) + Len(b) THEN <<>>
  ELSE LET t == BigColumn(a, b, k, 1) + carry
       IN  <<t % LimbBase>> \o BigMulFrom(a, b, k + 1, t \div LimbBase)

\* a * b, for a and b of at most 4 limbs
BigMul(a, b) == BigTrim(BigMulFrom(a, b, 1, 0))

RECURSIVE LimbLen(_)
LimbLen(n) == IF n = 0 THEN 0 ELSE 1 + LimbLen(n \div 2)

\* the number of bits of t, which has no leading zero limb
TrimmedBitLen(t) ==
  IF Len(t) = 0 THEN 0 ELSE (Len(t) - 1) * LimbBits + LimbLen(t[Len(t)])

\* the number of bits of a
BigBitLen(a) == TrimmedBitLen(BigTrim(a))

\* a * 2^n
BigShl(a, n) ==
  LET limbs == n \div LimbBits
      f == 2^(n % LimbBits)
      wide == [i \in 1..(Len(a) + 1) |->
                 ((Limb(a, i) * f) % LimbBase)
                 + (IF i > 1 THEN (a[i - 1] * f) \div LimbBase ELSE 0)]
  IN  BigTrim([i \in 1..limbs |-> 0] \o wide)

\* a \div 2^n
BigShr(a, n) ==
  LET limbs == n \div LimbBits
      r == n % LimbBits
      f == 2^r
      g == 2^(LimbBits - r)
  IN  IF limbs >= Len(a) THEN <<>>
      ELSE BigTrim([i \in 1..(Len(a) - limbs) |->
                      (a[i + limbs] \div f) + (Limb(a, i + limbs + 1) % f) * g])

\* a * 2^(-n), truncated
BigScale(a, n) == IF n > 0 THEN BigShr(a, n) ELSE BigShl(a, -n)

\* bit n of a (bit 0 is the least significant)
BigBit(a, n) == (Limb(a, n \div LimbBits + 1) \div 2^(n % LimbBits)) % 2

\* a has a bit set below bit n
BigLowBits(a, n) ==
  \/ \E i \in 1..Len(a) : i <= n \div LimbBits /\ a[i] # 0
  \/ Limb(a, n \div LimbBits + 1) % 2^(n % LimbBits) # 0

RECURSIVE BigMulLimbFrom(_, _, _, _)
BigMulLimbFrom(a, d, i, carry) ==
  IF i > Len(a) THEN (IF carry = 0 THEN <<>> ELSE <<carry>>)
  ELSE LET t == a[i] * d + carry
       IN  <<t % LimbBase>> \o BigMulLimbFrom(a, d, i + 1, t \div LimbBase)

\* a * d, for a limb d
BigMulLimb(a, d) == IF d = 0 THEN <<>> ELSE BigMulLimbFrom(a, d, 1, 0)

\* limbs i + 1 and i of a as one number
TwoLimbs(a, i) == Limb(a, i + 1) * LimbBase + Limb(a, i)

\* guess, or 1 or 2 less: the largest digit with digit * b <= part, where
\* high is guess * b
DigitBelow(part, b, guess, high) ==
  IF BigCmp(high, part) <= 0 THEN guess
  ELSE IF BigCmp(BigSub(high, b), part) <= 0 THEN guess - 1
  ELSE guess - 2

DigitNear(part, b, guess) == DigitBelow(part, b, guess, BigMulLimb(b, guess))

\* One digit of a long division: the largest digit with digit * b <= part,
\* for part < b * LimbBase and b with the top bit of its top limb set. The
\* two top limbs of part over the top limb of b are the digit, or 1 or 2
\* more.
BigDigit(part, b) ==
  DigitNear(part, b, Min(TwoLimbs(part, Len(b)) \div b[Len(b)], LimbBase - 1))

RECURSIVE BigDivFrom(_, _, _, _, _)
RECURSIVE BigDivRest(_, _, _, _, _, _)
RECURSIVE BigDivDigit(_, _, _, _, _, _)
\* the division goes on below limb i with the digit and the rest of limb i
BigDivRest(a, b, i, q, digit, rest) ==
  IF BigCmp(rest, b) < 0
  THEN BigDivFrom(a, b, i - 1, <<digit>> \o q, rest)
  ELSE [q |-> <<>>, r |-> rest]

BigDivDigit(a, b, i, q, part, digit) ==
  BigDivRest(a, b, i, q, digit, BigSub(part, BigMulLimb(b, digit)))

\* long division of a by b, limb by limb from limb i down, with the
\* quotient q and the remainder r of the limbs above i: [q, r]
BigDivFrom(a, b, i, q, r) ==
  IF i = 0 THEN [q |-> BigTrim(q), r |-> r]
  ELSE BigDivDigit(a, b, i, q, BigTrim(<<a[i]>> \o r),
                   BigDigit(BigTrim(<<a[i]>> \o r), b))

\* the quotient of n by d and the remainder shifted back
BigDivShifted(a, n, d, shift) ==
  IF BigCmp(n, d) < 0 THEN [q |-> <<>>, r |-> BigTrim(a)]
  ELSE [BigDivFrom(n, d, Len(n) - Len(d) + 1, <<>>,
                   SubSeq(n, Len(n) - Len(d) + 2, Len(n)))
          EXCEPT !.r = BigShr(@, shift)]

BigDivBy(a, b, shift) == BigDivShifted(a, BigShl(a, shift), BigShl(b, shift), shift)

\* quotient and remainder of a by b # 0: both are shifted so that the top
\* limb of the divisor is full
BigDivMod(a, b) ==
  BigDivBy(a, b, (LimbBits - (BigBitLen(b) % LimbBits)) % LimbBits)

RECURSIVE SmallSqrtFrom(_, _)
\* Newton's iteration on integers from x, at least the square root of n
SmallSqrtFrom(n, x) ==
  LET y == (x + n \div x) \div 2
  IN  IF y < x THEN SmallSqrtFrom(n, y) ELSE x

RECURSIVE BigSqrtFrom(_, _)
RECURSIVE BigSqrtNext(_, _, _)
BigSqrtNext(a, root, next) ==
  IF BigCmp(next, root) < 0 THEN BigSqrtFrom(a, next) ELSE root

\* Newton's iteration from root, at least the square root of a: the roots
\* decrease down to the integer square root
BigSqrtFrom(a, root) ==
  BigSqrtNext(a, root, BigShr(BigAdd(root, BigDivMod(a, root).q), 1))

\* the root with whether it is the square root of a
BigSqrtExact(a, root) ==
  [root |-> root, exact |-> BigCmp(BigMul(root, root), a) = 0]

\* the iteration starts above the root of the bits of a from bit low up
BigSqrtAbove(a, low) ==
  BigSqrtExact(a,
    BigSqrtFrom(a, BigShl(BigOfNat(SmallSqrtFrom(TwoLimbs(BigShr(a, low), 1),
                                                 LimbBase) + 1),
                          low \div 2)))

\* the even number of bits below the two top limbs of a number of len bits
BigSqrtLow(len) ==
  IF len > 2 * LimbBits THEN 2 * ((len - 2 * LimbBits + 1) \div 2) ELSE 0

\* the integer square root of a # 0, and whether it is the square root; the
\* iteration starts above the root of the two top limbs of a
BigSqrt(a) == BigSqrtAbove(a, BigSqrtLow(BigBitLen(a)))

\* The significand as 4 limbs
Zero(neg) == [k |-> "num", neg |-> neg, m |-> <<0, 0, 0, 0>>, e |-> MinExp]
\* Infinity (s > 0) or -Infinity
Inf(s) == IF s > 0 THEN Infinity ELSE [k |-> "Infinity", sign |-> -1]

\* The number (-1)^neg * m * 2^e for m below 2^Precision, or the infinity
\* when it is too large
Finite(neg, m, e) ==
  IF e > MaxExp THEN Inf(IF neg THEN -1 ELSE 1)
  ELSE [k |-> "num", neg |-> neg, m |-> [i \in 1..4 |-> Limb(m, i)], e |-> e]

\* Rounding up may carry into one more bit than Precision: the last bit is
\* then 0 and is dropped
RoundCarry(neg, rounded, e) ==
  IF BigBitLen(rounded) > Precision
  THEN Finite(neg, BigShr(rounded, 1), e + 1)
  ELSE Finite(neg, rounded, e)

\* The bits of m below bit n are worth more than half of bit n, or half of
\* it with kept, the bits from bit n up, odd
RoundsUp(m, n, sticky, kept) ==
  /\ n > 0
  /\ BigBit(m, n - 1) = 1
  /\ \/ sticky
     \/ n > 1 /\ BigLowBits(m, n - 1)
     \/ BigBit(kept, 0) = 1

RoundKept(neg, m, e, sticky, n, kept) ==
  RoundCarry(neg,
             IF RoundsUp(m, n, sticky, kept) THEN BigAdd(kept, <<1>>) ELSE kept,
             e + n)

\* m rounded at bit n
RoundAt(neg, m, e, sticky, n) == RoundKept(neg, m, e, sticky, n, BigScale(m, n))

\* The number nearest to (-1)^neg * (m + f) * 2^e, ties to even, where m is
\* a natural number of any size and f is 0, or strictly between 0 and 1 if
\* sticky: Precision bits are kept, fewer for a subnormal number
RoundTo(neg, m, e, sticky) ==
  IF BigIsZero(m) THEN Zero(neg)
  ELSE RoundAt(neg, m, e, sticky, Max(BigBitLen(m) - Precision, MinExp - e))

IsNum(a) == a.k = "num"
IsInf(a) == a.k = "Infinity"
\* ToNumber of undefined is NaN: both poison arithmetic and comparisons.
IsNaNish(a) == a.k \in {"NaN", "undefined"}
IsZero(a) == IsNum(a) /\ BigIsZero(a.m)
Sign(a) == IF IsInf(a) THEN a.sign
           ELSE IF BigIsZero(a.m) THEN 0 ELSE IF a.neg THEN -1 ELSE 1
\* Negative, for infinities, numbers and zeros
IsNeg(a) == IF IsInf(a) THEN a.sign < 0 ELSE a.neg

\* The integer i as a number
Int2Num(i) == RoundTo(i < 0, BigOfNat(IF i < 0 THEN -i ELSE i), 0, FALSE)

\* -a
JsNeg(a) ==
  IF IsNaNish(a) THEN NaN
  ELSE IF IsInf(a) THEN Inf(-a.sign)
  ELSE [a EXCEPT !.neg = ~a.neg]

\* (-1)^hneg * wide + (-1)^lneg * small as a sign and a magnitude, cmp
\* comparing wide with small
AddSigned(hneg, lneg, wide, small, cmp) ==
  IF hneg = lneg THEN [neg |-> hneg, m |-> BigAdd(wide, small)]
  ELSE IF cmp = 0 THEN [neg |-> FALSE, m |-> <<>>]
  ELSE IF cmp > 0 THEN [neg |-> hneg, m |-> BigSub(wide, small)]
  ELSE [neg |-> lneg, m |-> BigSub(small, wide)]

RoundSigned(s, e, sticky) == RoundTo(s.neg, s.m, e, sticky)

\* The sum of wide and small, of signs hneg and lneg, in units of 2^e
AddAligned(hneg, lneg, wide, small, e, sticky) ==
  RoundSigned(AddSigned(hneg, lneg, wide, small, BigCmp(wide, small)), e, sticky)

\* far: lo is beyond the rounding bits of hi and only tells on which side
\* of hi the sum is, so hi is taken with two more bits, and one unit less
\* when lo is of the other sign
AddGap(hi, lo, far) ==
  IF far /\ BigIsZero(lo.m) THEN hi
  ELSE AddAligned(hi.neg, lo.neg,
                  BigShl(hi.m, IF far THEN 2 ELSE hi.e - lo.e),
                  IF ~far THEN BigTrim(lo.m)
                  ELSE IF hi.neg = lo.neg THEN <<>> ELSE <<1>>,
                  IF far THEN hi.e - 2 ELSE lo.e,
                  far)

\* The sum of two finite numbers, hi the one with the larger exponent
AddFinite(hi, lo) == AddGap(hi, lo, hi.e - lo.e > Precision + 2)

\* a + b
JsAdd(a, b) ==
  IF IsNaNish(a) \/ IsNaNish(b) THEN NaN
  ELSE IF IsInf(a) /\ IsInf(b) THEN (IF a.sign = b.sign THEN a ELSE NaN)
  ELSE IF IsInf(a) THEN a
  ELSE IF IsInf(b) THEN b
  ELSE AddFinite(IF a.e >= b.e THEN a ELSE b, IF a.e >= b.e THEN b ELSE a)

\* a - b
JsSub(a, b) == JsAdd(a, JsNeg(b))

\* a * b
JsMul(a, b) ==
  IF IsNaNish(a) \/ IsNaNish(b) THEN NaN
  ELSE IF IsInf(a) \/ IsInf(b)
       THEN (IF Sign(a) * Sign(b) = 0 THEN NaN ELSE Inf(Sign(a) * Sign(b)))
  ELSE RoundTo(a.neg # b.neg, BigMul(BigTrim(a.m), BigTrim(b.m)), a.e + b.e, FALSE)

\* The quotient qr.q, with the remainder qr.r, in units of 2^e
RoundQuotient(neg, qr, e) == RoundTo(neg, qr.q, e, ~BigIsZero(qr.r))

\* a / b for finite numbers that are not zero: a is shifted so that the
\* quotient has two bits more than Precision
DivFinite(neg, a, b, shift) ==
  RoundQuotient(neg, BigDivMod(BigShl(a.m, shift), BigTrim(b.m)),
                a.e - b.e - shift)

\* a / b of sign neg
DivSigned(neg, a, b) ==
  IF IsInf(a) /\ IsInf(b) THEN NaN
  ELSE IF IsInf(a) THEN Inf(IF neg THEN -1 ELSE 1)
  ELSE IF IsInf(b) THEN Zero(neg)
  ELSE IF BigIsZero(b.m)
       THEN (IF BigIsZero(a.m) THEN NaN ELSE Inf(IF neg THEN -1 ELSE 1))
  ELSE IF BigIsZero(a.m) THEN Zero(neg)
  ELSE DivFinite(neg, a, b, Precision + 2 + BigBitLen(b.m) - BigBitLen(a.m))

\* a / b
JsDiv(a, b) ==
  IF IsNaNish(a) \/ IsNaNish(b) THEN NaN
  ELSE DivSigned(IsNeg(a) # IsNeg(b), a, b)

\* The root, with whether it is exact, in units of 2^e
RoundRoot(root, e) == RoundTo(FALSE, root.root, e, ~root.exact)

\* the square root of a > 0, shifted to an even exponent
SqrtFinite(a, shift) ==
  RoundRoot(BigSqrt(BigShl(a.m, shift)), (a.e - shift) \div 2)

\* grow, or one more: what makes e - shift even
EvenShift(e, grow) == IF (e - grow) % 2 = 0 THEN grow ELSE grow + 1

\* Math.sqrt(a): a is shifted to an even exponent and at least
\* 2 * Precision + 2 bits under the root
JsSqrt(a) ==
  IF IsNaNish(a) THEN NaN
  ELSE IF IsInf(a) THEN (IF a.sign > 0 THEN a ELSE NaN)
  ELSE IF BigIsZero(a.m) THEN a
  ELSE IF a.neg THEN NaN
  ELSE SqrtFinite(a, EvenShift(a.e, 2 * Precision + 4 - BigBitLen(a.m)))

\* The number nearest to n / d, for integers n and d # 0: what the decimal
\* literal that is worth n / d reads as
Num(n, d) == JsDiv(Int2Num(n), Int2Num(d))

\* -1, 0, 1 as |a| < |b|, |a| = |b|, |a| > |b|, for finite numbers
CmpMagnitude(a, b) ==
  IF a.e > b.e
  THEN (IF a.e - b.e > Precision THEN 1
        ELSE BigCmp(BigShl(a.m, a.e - b.e), b.m))
  ELSE (IF b.e - a.e > Precision THEN -1
        ELSE BigCmp(a.m, BigShl(b.m, b.e - a.e)))

CmpSigns(a, b, sa, sb) ==
  IF sa # sb THEN (IF sa < sb THEN -1 ELSE 1)
  ELSE IF sa = 0 THEN 0
  ELSE sa * CmpMagnitude(a, b)

\* -1, 0, 1 as a < b, a = b, a > b, for finite numbers
CmpFinite(a, b) == CmpSigns(a, b, Sign(a), Sign(b))

\* a < b: false as soon as one side is NaN (or undefined)
JsLt(a, b) ==
  IF IsNaNish(a) \/ IsNaNish(b) THEN FALSE
  ELSE IF IsInf(a) /\ IsInf(b) THEN a.sign < b.sign
  ELSE IF IsInf(a) THEN a.sign < 0
  ELSE IF IsInf(b) THEN b.sign > 0
  ELSE CmpFinite(a, b) < 0

\* a > b
JsGt(a, b) == JsLt(b, a)

\* a >= b
JsGe(a, b) ==
  IF IsNaNish(a) \/ IsNaNish(b) THEN FALSE ELSE ~JsLt(a, b)

\* a <= b
JsLe(a, b) == JsGe(b, a)

(***************************************************************************)
(* Arrays and plain objects.                                               *)
(***************************************************************************)
Arr(s) == [array |-> s]
Obj(f) == [object |-> f]
IsArr(v) == "array" \in DOMAIN v
\* A plain object
IsPlain(v) == "object" \in DOMAIN v
\* v instanceof Object: arrays and plain objects are, numbers, undefined
\* and null are not
IsObj(v) == IsArr(v) \/ IsPlain(v)

\* v[key] for an ROI key and v not undefined or null: the value a plain
\* object holds for the key, undefined for a key it does not hold and for
\* an array or a number (an ROI key is no index)
Get(v, key) ==
  IF IsPlain(v) /\ key \in DOMAIN v.object THEN v.object[key] ELSE Undefined

RECURSIVE isEqual(_, _)
\* lodash isEqual: deep equality by value. NaN equals NaN and 0 equals -0;
\* an array never equals a plain object, whatever they hold
isEqual(a, b) ==
  IF a = b THEN TRUE
  ELSE IF "k" \in DOMAIN a /\ "k" \in DOMAIN b
       THEN IsNum(a) /\ IsNum(b) /\ IsZero(a) /\ IsZero(b)
  ELSE IF IsArr(a) /\ IsArr(b)
       THEN /\ Len(a.array) = Len(b.array)
            /\ \A i \in 1..Len(a.array) : isEqual(a.array[i], b.array[i])
  ELSE IF IsPlain(a) /\ IsPlain(b)
       THEN /\ DOMAIN a.object = DOMAIN b.object
            /\ \A key \in DOMAIN a.object : isEqual(a.object[key], b.object[key])
  ELSE FALSE

\* The last index of key in keys (_.zipObject: a repeated key keeps its
\* last value).
LastIndex(keys, key) ==
  CHOOSE i \in 1..Len(keys) :
    keys[i] = key /\ \A j \in (i + 1)..Len(keys) : keys[j] # key

\* Variant: a repeated key keeps its first value
zipObject_FirstWins(keys, values) ==
  Obj([key \in {keys[i] : i \in 1..Len(keys)} |->
         LET i == CHOOSE i \in 1..Len(keys) :
                    keys[i] = key /\ \A j \in 1..(i - 1) : keys[j] # key
         IN  IF i <= Len(values) THEN values[i] ELSE Undefined])

\* _.zipObject(keys, values)
zipObject(keys, values) ==
  Obj([key \in {keys[i] : i \in 1..Len(keys)} |->
         LET i == LastIndex(keys, key)
         IN  IF i <= Len(values) THEN values[i] ELSE Undefined])


(***************************************************************************)
(* Outcomes of a call: a value handed to the callback (or returned), or an *)
(* exception.  null is the callback's "nothing to report" value.           *)
(***************************************************************************)
Null == [k |-> "null"]
Return(v) == [kind |-> "return", val |-> v]
Throw(e) == [kind |-> "throw", val |-> e]
\* callback(error)
Fail(e) == [kind |-> "error", val |-> e]
IsThrow(r) == "kind" \in DOMAIN r /\ r.kind = "throw"
TypeError == "TypeError"
Error == "Error"

(***************************************************************************)
(* Objects are held by reference.  The store of a call is the sequence of  *)
(* the objects the call can reach; the reference of an object is its index *)
(* in the store, and a write to a property of an object changes the store  *)
(* at its reference.  An array is held with its members, the result        *)
(* documents.  An argument that is no object (undefined, a symbol) has a   *)
(* slot too.  A function that is passed a store gives                      *)
(* [out, at, store]: its outcome, the reference of the object it returned  *)
(* (0 when it returned no object) and the store as it leaves it.           *)
(***************************************************************************)
\* {...} or [...], a new object: it is at the reference Len(store) + 1
New(store, object) == Append(store, object)

\* return {...}: the object that is returned is a new one
Gave(store, object) ==
  [out |-> Return(object), at |-> Len(store) + 1, store |-> New(store, object)]

\* _.assign(target, source): every own property of the source is written to
\* the target; undefined, null and a symbol have none
assign(store, target, source) ==
  LET own == IF "k" \in DOMAIN store[source] \/ "symbol" \in DOMAIN store[source]
             THEN {} ELSE DOMAIN store[source]
  IN  [store EXCEPT ![target] =
         [property \in DOMAIN store[target] \cup own |->
            IF property \in own THEN store[source][property]
            ELSE store[target][property]]]

\* A JavaScript value used as a condition
Truthy(v) ==
  IF "k" \in DOMAIN v
  THEN v.k = "Infinity" \/ (v.k = "num" /\ ~BigIsZero(v.m))
  ELSE TRUE

(***************************************************************************)
(* Algorithm constants of src/index.js.                                    *)
(***************************************************************************)
INITIAL_LEARNING_RATE == Num(7, 10)
MAX_ITERATION_COUNT == 200
ROI_KEYS == <<"Left-Hippocampus">>
\* 1e-5
TOLERANCE == Num(1, 100000)

(***************************************************************************)
(* The numeric library (coinstac-distributed-algorithm-set, numeric).      *)
(***************************************************************************)
RECURSIVE Fold(_, _, _)
\* values.reduce over values[i..], starting from acc, with +
Fold(values, i, acc) ==
  IF i > Len(values) THEN acc ELSE Fold(values, i + 1, JsAdd(acc, values[i]))

\* utils.columnWiseSum: the vector of the sums of the matrix's columns
columnWiseSum(matrix) ==
  [j \in 1..Len(matrix[1]) |->
     Fold([i \in 1..Len(matrix) |-> matrix[i][j]], 2, matrix[1][j])]

RECURSIVE norm2Squared(_, _, _)
\* numeric.norm2Squared(x), from index i of x down to the first with the
\* sum accum of the squares so far: accum += xi * xi, from the last element
\* to the first
norm2Squared(x, i, accum) ==
  IF i < 1 THEN accum
  ELSE norm2Squared(x, i - 1, JsAdd(accum, JsMul(x[i], x[i])))

\* numeric.norm2(x): Math.sqrt(numeric.norm2Squared(x))
norm2(x) == JsSqrt(norm2Squared(x, Len(x), Int2Num(0)))

\* ridgeRegression.recalculateMVals: one descent step, w - learningRate * g
recalculateMVals(learningRate, w, g) ==
  [i \in 1..Len(w) |->
     JsSub(w[i], JsMul(learningRate, IF i <= Len(g) THEN g[i] ELSE Undefined))]

(***************************************************************************)
(* src/helpers.js                                                          *)
(***************************************************************************)
RECURSIVE flatten(_)
\* _.flatten(values): one level of nesting is removed
flatten(values) ==
  IF Len(values) = 0 THEN <<>>
  ELSE (IF IsArr(Head(values)) THEN Head(values).array ELSE <<Head(values)>>)
         \o flatten(Tail(values))

\* _.flatten(values).reduce((all, number) => all + number): no initial
\* value, so an empty array throws and a single value is returned as it is
sum(values) ==
  LET flat == flatten(values)
  IN  IF Len(flat) = 0 THEN Throw(TypeError)
      ELSE Fold(flat, 2, flat[1])

\* Variant: divides by the count of the flattened values
mean_FlatCount(values) ==
  LET count == Len(flatten(values))
      total == sum(values)
  IN  IF count = 0 THEN Int2Num(0)
      ELSE IF IsThrow(total) THEN total
      ELSE JsDiv(total, Int2Num(count))

mean(values) ==
  LET count == Len(values)
      total == sum(values)
  IN  IF count = 0 THEN Int2Num(0)
      ELSE IF IsThrow(total) THEN total
      ELSE JsDiv(total, Int2Num(count))

\* _.map(analyses, _.property('data.objective'))
getObjectiveValues(analyses) ==
  [i \in 1..Len(analyses) |->
     IF "data" \in DOMAIN analyses[i] /\ analyses[i].data # Undefined
     THEN analyses[i].data.objective
     ELSE Undefined]

unzipRoiKeyPairs(obj, roiKeys) ==
  [i \in 1..Len(roiKeys) |-> Get(obj, roiKeys[i])]

zipRoiKeyPairs(values, roiKeys) == zipObject(roiKeys, values)

\* analyses.map(a => a.gradient).map(values => unzipRoiKeyPairs(...)):
\* reading a key of an undefined or null gradient throws; any other
\* gradient is read key by key
getGradientValues(analyses, roiKeys) ==
  IF /\ Len(roiKeys) > 0
     /\ \E i \in 1..Len(analyses) : analyses[i].gradient \in {Undefined, Null}
  THEN Throw(TypeError)
  ELSE Return([i \in 1..Len(analyses) |->
                 unzipRoiKeyPairs(analyses[i].gradient, roiKeys)])

\* Variant: the seed's gradient is left without keys
getRemoteSeed_NoGradientKeys(options, rnd) ==
  LET keys == {options.roiKeys[i] : i \in 1..Len(options.roiKeys)}
      none == Obj([key \in {} |-> Int2Num(0)])
      draw == Obj([key \in keys |-> rnd[key]])
  IN  [gradient |-> none,
       iterationCount |-> 0,
       learningRate |-> options.learningRate,
       mVals |-> draw,
       objective |-> Infinity,
       previousBestFit |-> [gradient |-> none, mVals |-> draw,
                            objective |-> Infinity],
       r2 |-> Int2Num(0),
       complete |-> FALSE]

\* Variant: the seed's previousBestFit starts from zero coefficients
getRemoteSeed_NoMirror(options, rnd) ==
  LET keys == {options.roiKeys[i] : i \in 1..Len(options.roiKeys)}
      zero == Obj([key \in keys |-> Int2Num(0)])
      draw == Obj([key \in keys |-> rnd[key]])
  IN  [gradient |-> zero,
       iterationCount |-> 0,
       learningRate |-> options.learningRate,
       mVals |-> draw,
       objective |-> Infinity,
       previousBestFit |-> [gradient |-> zero, mVals |-> zero,
                            objective |-> Infinity],
       r2 |-> Int2Num(0),
       complete |-> FALSE]

\* rnd[key] is the value Math.random() returns for key
getRemoteSeed(options, rnd) ==
  LET keys == {options.roiKeys[i] : i \in 1..Len(options.roiKeys)}
      zero == Obj([key \in keys |-> Int2Num(0)])
      draw == Obj([key \in keys |-> rnd[key]])
  IN  [gradient |-> zero,
       iterationCount |-> 0,
       learningRate |-> options.learningRate,
       mVals |-> draw,
       objective |-> Infinity,
       previousBestFit |-> [gradient |-> zero, mVals |-> draw,
                            objective |-> Infinity],
       r2 |-> Int2Num(0),
       complete |-> FALSE]

\* Variant: marking a result complete also counts one more iteration
markRemoteComplete_Counting(store, remoteResult) ==
  LET after ==
        assign(assign(New(New(store, <<>>),
                          [complete |-> TRUE,
                           iterationCount |->
                             store[remoteResult].iterationCount + 1]),
                      Len(store) + 1, remoteResult),
               Len(store) + 1, Len(store) + 2)
  IN  [out |-> Return(after[Len(store) + 1]), at |-> Len(store) + 1,
       store |-> after]

\* Variant: _.assign(remoteResult, { complete: true }) writes to the
\* argument and returns it
markRemoteComplete_InPlace(store, remoteResult) ==
  LET after ==
        assign(New(store, [complete |-> TRUE]), remoteResult, Len(store) + 1)
  IN  [out |-> Return(after[remoteResult]), at |-> remoteResult,
       store |-> after]

\* _.assign({}, remoteResult, { complete: true }), remoteResult a reference:
\* the new {} is at the reference Len(store) + 1 and the new
\* { complete: true } at Len(store) + 2; the properties of remoteResult and
\* then those of { complete: true } are written to the {}, which is returned
markRemoteComplete(store, remoteResult) ==
  LET after ==
        assign(assign(New(New(store, <<>>), [complete |-> TRUE]),
                      Len(store) + 1, remoteResult),
               Len(store) + 1, Len(store) + 2)
  IN  [out |-> Return(after[Len(store) + 1]), at |-> Len(store) + 1,
       store |-> after]

\* Object.keys(values) as far as ROI keys go: the keys of a plain object; an
\* array's keys are its indices
OwnKeys(values) == IF IsPlain(values) THEN DOMAIN values.object ELSE {}

\* accumulator.concat(value): the elements of an array value, or the value
concat(accumulator, value) ==
  accumulator \o (IF IsArr(value) THEN value.array ELSE <<value>>)

RECURSIVE PickFrom(_, _, _, _)
\* order.reduce((accumulator, prop) => accumulator.concat(values[prop]), [])
\* from index i of order on
PickFrom(order, values, i, accumulator) ==
  IF i > Len(order) THEN accumulator
  ELSE PickFrom(order, values, i + 1,
                concat(accumulator, Get(values, order[i])))

\* order and values are JavaScript values; the outcome is the array, or an
\* exception
pickOrderedValues(order, values, strict) ==
  IF ~IsArr(order) THEN Throw(Error)
  ELSE IF ~IsObj(values) THEN Throw(Error)
  ELSE IF /\ strict
          /\ \E i \in 1..Len(order.array) : order.array[i] \notin OwnKeys(values)
       THEN Throw(Error)
  ELSE Arr(PickFrom(order.array, values, 1, <<>>))

\* (roi.max - roi.min) / sampleSize
calculateSensitivity(roi, sampleSize) ==
  JsDiv(JsSub(roi.max, roi.min), sampleSize)

\* Variant: the sensitivity is multiplied by epsilon
calculateLaplaceScale_Times(roi, sampleSize, epsilon) ==
  JsMul(calculateSensitivity(roi, sampleSize), epsilon)

calculateLaplaceScale(roi, sampleSize, epsilon) ==
  JsDiv(calculateSensitivity(roi, sampleSize), epsilon)

\* laplace.noise(scale) of coinstac-distributed-algorithm-set: scale times a
\* variate of the standard Laplace distribution; variate is the one this
\* call draws
LaplaceNoise(scale, variate) == JsMul(scale, variate)

\* value + laplace.noise(scale)
addNoise(value, roi, sampleSize, epsilon, variate) ==
  LET scale == calculateLaplaceScale(roi, sampleSize, epsilon)
  IN  JsAdd(value, LaplaceNoise(scale, variate))

(***************************************************************************)
(* src/runners.js                                                          *)
(***************************************************************************)
\* lib holds what the regression library computes from the normalized data
\* at aggregateMVals: lib.gradient (an array), lib.objective and lib.r2
computeRegression(lib, aggregateMVals, roiKeys) ==
  [gradient |-> zipObject(roiKeys, lib.gradient),
   objective |-> lib.objective,
   previousAggregateMVals |-> aggregateMVals,
   r2 |-> lib.r2]

STOP == [symbol |-> "computeAggregate STOP"]

\* Variant: a worse round lowers the learning rate by half the initial rate
SelectFit_LinearDecay(previousRemoteResult, aggregateObjective) ==
  IF JsGt(aggregateObjective, previousRemoteResult.previousBestFit.objective)
  THEN [learningRate |-> JsSub(previousRemoteResult.learningRate,
                               JsDiv(INITIAL_LEARNING_RATE, Int2Num(2))),
        bestFit |-> previousRemoteResult.previousBestFit]
  ELSE [learningRate |-> previousRemoteResult.learningRate,
        bestFit |-> [gradient |-> previousRemoteResult.gradient,
                     mVals |-> previousRemoteResult.mVals,
                     objective |-> previousRemoteResult.objective]]

\* Variant: a worse round divides the learning rate by 3
SelectFit_Third(previousRemoteResult, aggregateObjective) ==
  IF JsGt(aggregateObjective, previousRemoteResult.previousBestFit.objective)
  THEN [learningRate |-> JsDiv(previousRemoteResult.learningRate, Int2Num(3)),
        bestFit |-> previousRemoteResult.previousBestFit]
  ELSE [learningRate |-> previousRemoteResult.learningRate,
        bestFit |-> [gradient |-> previousRemoteResult.gradient,
                     mVals |-> previousRemoteResult.mVals,
                     objective |-> previousRemoteResult.objective]]

\* Variant: a round whose objective is worse keeps the learning rate
SelectFit_NoHalving(previousRemoteResult, aggregateObjective) ==
  IF JsGt(aggregateObjective, previousRemoteResult.previousBestFit.objective)
  THEN [learningRate |-> previousRemoteResult.learningRate,
        bestFit |-> previousRemoteResult.previousBestFit]
  ELSE [learningRate |-> previousRemoteResult.learningRate,
        bestFit |-> [gradient |-> previousRemoteResult.gradient,
                     mVals |-> previousRemoteResult.mVals,
                     objective |-> previousRemoteResult.objective]]

\* Variant: a round whose objective is not worse keeps the old best fit
SelectFit_KeepsFit(previousRemoteResult, aggregateObjective) ==
  IF JsGt(aggregateObjective, previousRemoteResult.previousBestFit.objective)
  THEN [learningRate |-> JsDiv(previousRemoteResult.learningRate, Int2Num(2)),
        bestFit |-> previousRemoteResult.previousBestFit]
  ELSE [learningRate |-> previousRemoteResult.learningRate,
        bestFit |-> previousRemoteResult.previousBestFit]

\* The learning rate and the best fit chosen by comparing the round's
\* objective with the previous best fit's
SelectFit(previousRemoteResult, aggregateObjective) ==
  IF JsGt(aggregateObjective, previousRemoteResult.previousBestFit.objective)
  THEN [learningRate |-> JsDiv(previousRemoteResult.learningRate, Int2Num(2)),
        bestFit |-> previousRemoteResult.previousBestFit]
  ELSE [learningRate |-> previousRemoteResult.learningRate,
        bestFit |-> [gradient |-> previousRemoteResult.gradient,
                     mVals |-> previousRemoteResult.mVals,
                     objective |-> previousRemoteResult.objective]]

\* The new mVals: one step from the previous result's previousBestFit
StepMVals(previousRemoteResult, learningRate, roiKeys) ==
  zipRoiKeyPairs(
    recalculateMVals(
      learningRate,
      unzipRoiKeyPairs(previousRemoteResult.previousBestFit.mVals, roiKeys),
      unzipRoiKeyPairs(previousRemoteResult.previousBestFit.gradient, roiKeys)),
    roiKeys)

\* Variant: the comparison reversed, norm2 >= tolerance
BelowTolerance_Reversed(gradient, tolerance, roiKeys) ==
  ~JsLt(norm2(unzipRoiKeyPairs(gradient, roiKeys)), tolerance)

\* numeric.norm2(unzipRoiKeyPairs(gradient, roiKeys)) < tolerance
BelowTolerance(gradient, tolerance, roiKeys) ==
  JsLt(norm2(unzipRoiKeyPairs(gradient, roiKeys)), tolerance)

\* Variant: the round is not counted
computeAggregate_NoCount(store, previousRemoteResult, localResults, tolerance, roiKeys) ==
  LET previous == store[previousRemoteResult]
      results == store[localResults].array
      aggregateObjective == sum(getObjectiveValues(results))
      gradientValues == getGradientValues(results, roiKeys)
      aggregateGradient == columnWiseSum(gradientValues.val)
      gradient == zipRoiKeyPairs(aggregateGradient, roiKeys)
      fit == SelectFit(previous, aggregateObjective)
  IN  IF IsThrow(aggregateObjective)
      THEN [out |-> aggregateObjective, at |-> 0, store |-> store]
      ELSE IF IsThrow(gradientValues)
      THEN [out |-> gradientValues, at |-> 0, store |-> store]
      ELSE IF BelowTolerance(gradient, tolerance, roiKeys)
      THEN [out |-> Return(STOP), at |-> 0, store |-> store]
      ELSE Gave(
        store,
        [gradient |-> gradient,
         iterationCount |-> previous.iterationCount,
         learningRate |-> fit.learningRate,
         mVals |-> StepMVals(previous, fit.learningRate, roiKeys),
         objective |-> aggregateObjective,
         previousBestFit |-> fit.bestFit,
         r2 |-> mean([i \in 1..Len(results) |-> results[i].r2]),
         complete |-> FALSE])

\* previousRemoteResult and localResults are references.  The function
\* assigns to its locals learningRate and bestFit only, and to no property
\* of an object; the arrays and objects its helpers build on the way
\* (_.map, _.zipObject, _.flatten) are new and are not kept; the object it
\* returns is new
computeAggregate(store, previousRemoteResult, localResults, tolerance, roiKeys) ==
  LET previous == store[previousRemoteResult]
      results == store[localResults].array
      aggregateObjective == sum(getObjectiveValues(results))
      gradientValues == getGradientValues(results, roiKeys)
      aggregateGradient == columnWiseSum(gradientValues.val)
      gradient == zipRoiKeyPairs(aggregateGradient, roiKeys)
      fit == SelectFit(previous, aggregateObjective)
  IN  IF IsThrow(aggregateObjective)
      THEN [out |-> aggregateObjective, at |-> 0, store |-> store]
      ELSE IF IsThrow(gradientValues)
      THEN [out |-> gradientValues, at |-> 0, store |-> store]
      ELSE IF BelowTolerance(gradient, tolerance, roiKeys)
      THEN [out |-> Return(STOP), at |-> 0, store |-> store]
      ELSE Gave(
        store,
        [gradient |-> gradient,
         iterationCount |-> previous.iterationCount + 1,
         learningRate |-> fit.learningRate,
         mVals |-> StepMVals(previous, fit.learningRate, roiKeys),
         objective |-> aggregateObjective,
         previousBestFit |-> fit.bestFit,
         r2 |-> mean([i \in 1..Len(results) |-> results[i].r2]),
         complete |-> FALSE])

\* What require('./runners.js') exports
RunnersExports == {"computeAggregate", "computeRegression"}

(***************************************************************************)
(* src/index.js                                                            *)
(***************************************************************************)
\* Variant: some in place of every, one result in sync is enough
WaitForResults_Some(previousData, userResults) ==
  \/ ~IsArr(userResults)
  \/ ~\E i \in 1..Len(userResults.array) :
        isEqual(userResults.array[i].previousAggregateMVals, previousData.mVals)

\* Wait for user results, and for them to sync to the last aggregate's mVals
WaitForResults(previousData, userResults) ==
  \/ ~IsArr(userResults)
  \/ Len(userResults.array) = 0
  \/ ~\A i \in 1..Len(userResults.array) :
        isEqual(userResults.array[i].previousAggregateMVals, previousData.mVals)

\* runners.computeAverage(previousData, userResults, TOLERANCE, ROI_KEYS):
\* runners.js exports no computeAverage, and calling undefined throws
computeAverage(store, previousData, userResults, tolerance, roiKeys) ==
  IF "computeAverage" \in RunnersExports
  THEN computeAggregate(store, previousData, userResults, tolerance, roiKeys)
  ELSE [out |-> Throw(TypeError), at |-> 0, store |-> store]

\* remote.fn's last lines on newResult, what computeAverage gave: an
\* exception goes on, the STOP symbol (no object: it gets a slot of the
\* store) is marked complete and a result is passed to the callback
CompleteOnStop(newResult) ==
  IF IsThrow(newResult.out) THEN newResult
  ELSE IF newResult.out.val = STOP
       THEN markRemoteComplete(New(newResult.store, STOP),
                               Len(newResult.store) + 1)
  ELSE newResult

\* Variant: the iteration gate only closes above the maximum count
RemoteFn_GateAbove(store, params, rnd) ==
  LET previousData == store[params.previousData]
      userResults == store[params.userResults]
  IN  IF ~Truthy(previousData)
      THEN Gave(store,
                getRemoteSeed([learningRate |-> INITIAL_LEARNING_RATE,
                               roiKeys |-> ROI_KEYS], rnd))
      ELSE IF WaitForResults(previousData, userResults)
           THEN [out |-> Return(Null), at |-> 0, store |-> store]
      ELSE IF previousData.iterationCount > MAX_ITERATION_COUNT
           THEN markRemoteComplete(store, params.previousData)
      ELSE CompleteOnStop(
             computeAverage(store, params.previousData, params.userResults,
                            TOLERANCE, ROI_KEYS))

\* remote.fn: params.previousData and params.userResults are references;
\* rnd are the values Math.random() draws for a seed.  The outcome is what
\* the callback gets.  The seed is a new object; previousData is passed on,
\* by reference, to markRemoteComplete and to computeAverage
RemoteFn(store, params, rnd) ==
  LET previousData == store[params.previousData]
      userResults == store[params.userResults]
  IN  IF ~Truthy(previousData)
      THEN Gave(store,
                getRemoteSeed([learningRate |-> INITIAL_LEARNING_RATE,
                               roiKeys |-> ROI_KEYS], rnd))
      ELSE IF WaitForResults(previousData, userResults)
           THEN [out |-> Return(Null), at |-> 0, store |-> store]
      ELSE IF previousData.iterationCount >= MAX_ITERATION_COUNT
           THEN markRemoteComplete(store, params.previousData)
      ELSE CompleteOnStop(
             computeAverage(store, params.previousData, params.userResults,
                            TOLERANCE, ROI_KEYS))

\* A file path seen through indexOf: filename.controls is
\* filename.indexOf('controls'), filename.patients is
\* filename.indexOf('patients') (-1: not found, 0: at the start)
SortFile(filename) ==
  IF filename.controls # 0 THEN Throw(TypeError)      \* controls.controls.push
  ELSE IF filename.patients # 0 THEN Throw(TypeError) \* patients.patients.push
  ELSE Fail(Error)                                    \* callback(new Error)

\* helpers.getROIsFromFiles(filenames, roiKeys, callback) for an empty list
\* of file names, all local.fn ever passes: what callback is called with.
\* async.waterfall gets callback as its fourth task, so after the three
\* tasks have mapped the files to their ROI values, callback is called as
\* callback(roiValues, next): the values, [] for no file, come as the error
getROIsFromFiles(filenames, roiKeys) == Fail(Arr(filenames))

\* Variant: the previous echo is compared with remoteResult.mVals itself
LocalFn_CompareMVals(params) ==
  LET aggregateMVals ==
        pickOrderedValues(Arr(ROI_KEYS), params.remoteResult.mVals, FALSE)
      controls == getROIsFromFiles(<<>>, ROI_KEYS)
  IN  IF ~Truthy(params.remoteResult) THEN Return(Null)
      ELSE IF IsThrow(aggregateMVals) THEN aggregateMVals
      ELSE IF /\ Truthy(params.previousData)
              /\ isEqual(params.previousData.previousAggregateMVals,
                         params.remoteResult.mVals)
           THEN Return(Null)
      ELSE IF Len(params.filenames) > 0 THEN SortFile(params.filenames[1])
      ELSE controls

\* local.fn: params.remoteResult, params.previousData, params.filenames.
\* The outcome is what the callback gets, or an exception.  The loop over
\* the file names ends the call at the first one; with no file name,
\* async.series runs its first task, getROIsFromFiles of the empty list
\* controls, whose error [] is truthy: series ends with it and local.fn
\* calls back with that error, so runners.computeRegression is not called
LocalFn(params) ==
  LET aggregateMVals ==
        pickOrderedValues(Arr(ROI_KEYS), params.remoteResult.mVals, FALSE)
      controls == getROIsFromFiles(<<>>, ROI_KEYS)
  IN  IF ~Truthy(params.remoteResult) THEN Return(Null)
      ELSE IF IsThrow(aggregateMVals) THEN aggregateMVals
      ELSE IF /\ Truthy(params.previousData)
              /\ isEqual(params.previousData.previousAggregateMVals, aggregateMVals)
           THEN Return(Null)
      ELSE IF Len(params.filenames) > 0 THEN SortFile(params.filenames[1])
      ELSE controls

(***************************************************************************)
(* Inputs.                                                                 *)
(***************************************************************************)
KeySet == {ROI_KEYS[i] : i \in 1..Len(ROI_KEYS)}

\* Values Math.random() returns: 0 and 0.5
RandomValues == {Int2Num(0), Num(1, 2)}
RandomDraws == [KeySet -> RandomValues]

\* The draws of a call of remote.fn on the remote result previous:
\* Math.random() is only called for a seed
DrawsFor(previous) ==
  IF Truthy(previous) THEN {[key \in KeySet |-> Int2Num(0)]} ELSE RandomDraws

\* What the regression library computes from a site's data: the gradient
\* 5e-6, below the tolerance, with the objective 2 and r2 0.4, and the
\* gradient 1e-5, the tolerance, with the objective 1 and r2 0.1
FitBelow ==
  [gradient |-> <<Num(1, 200000)>>, objective |-> Int2Num(2), r2 |-> Num(4, 10)]
FitAt ==
  [gradient |-> <<Num(1, 100000)>>, objective |-> Int2Num(1), r2 |-> Num(1, 10)]

\* A result in which the property field was never set (reads undefined)
Without(result, field) ==
  IF field = "gradient" THEN [result EXCEPT !.gradient = Undefined]
  ELSE IF field = "r2" THEN [result EXCEPT !.r2 = Undefined]
  ELSE IF "data" \in DOMAIN result
       THEN [result EXCEPT !.data = [objective |-> Undefined]]
  ELSE [result EXCEPT !.objective = Undefined]

\* The lists of local results computeAggregate may be given for the sites'
\* results: the results as they are, or with the first one missing a field
ResultLists(results) ==
  {results} \cup
  (IF Len(results) = 0 THEN {}
   ELSE {[results EXCEPT ![1] = Without(results[1], field)] :
           field \in {"gradient", "objective", "r2"}})

\* mVals no aggregate of a run holds
StaleMVals == Obj([key \in KeySet |-> Int2Num(-1)])

\* A result of computeRegression with its objective stored under data, as
\* in the analysis documents of test/helpers.js
Document(result) ==
  [gradient |-> result.gradient,
   objective |-> Undefined,
   data |-> [objective |-> result.objective],
   previousAggregateMVals |-> result.previousAggregateMVals,
   r2 |-> result.r2]

\* The results of a round at mVals: results of computeRegression with
\* previousAggregateMVals keyed by ROI and equal to mVals, as they are or
\* as documents
RoundDocs(mVals) ==
  LET results == {computeRegression(lib, mVals, ROI_KEYS) : lib \in {FitBelow, FitAt}}
  IN  results \cup {Document(result) : result \in results}

\* The result documents remote.fn may be given for a site: a result of
\* computeRegression with previousAggregateMVals keyed by ROI and equal to
\* mVals (gradient below the tolerance), a document of such a result
\* (gradient at the tolerance), a result that echoes mVals as local.fn
\* passes them to computeRegression (the values in the order of ROI_KEYS),
\* and one that is out of sync
UserDocs(mVals) ==
  (IF mVals = Undefined THEN {}
   ELSE {computeRegression(FitBelow, mVals, ROI_KEYS),
         Document(computeRegression(FitAt, mVals, ROI_KEYS)),
         computeRegression(FitAt, Arr(unzipRoiKeyPairs(mVals, ROI_KEYS)),
                           ROI_KEYS)})
  \cup {computeRegression(FitAt, StaleMVals, ROI_KEYS)}

\* The lists of up to one result per site, over a set of results
DocLists(docs) == UNION {[1..n -> docs] : n \in 0..NumSites}

\* What remote.fn may be given as params.userResults with the remote
\* result previous: nothing, or the list of the sites' documents
UserResults(previous) ==
  {Undefined} \cup
  {Arr(docs) :
     docs \in DocLists(UserDocs(IF Truthy(previous) THEN previous.mVals
                                ELSE Undefined))}

\* What local.fn may be given as params.previousData with the remote
\* result remoteResult: nothing, or a result of computeRegression that
\* echoes, in the order of ROI_KEYS, the mVals of this remote result or
\* those of another
PreviousResults(remoteResult) ==
  {Undefined} \cup
  (IF Truthy(remoteResult)
   THEN {computeRegression(FitAt, echo, ROI_KEYS) :
           echo \in {Arr(unzipRoiKeyPairs(mVals, ROI_KEYS)) :
                       mVals \in {remoteResult.mVals, StaleMVals}}}
   ELSE {})

\* The result out gives, or previous when it gives none
NextOr(previous, out) ==
  IF out.kind = "return" /\ out.val # STOP THEN out.val ELSE previous

\* One round of computeAggregate on previous: one result document, in sync,
\* with the gradient at the tolerance and the given objective; a round that
\* gives no next result leaves previous
Round(previous, objective) ==
  NextOr(previous,
         computeAggregate(
           <<previous,
             Arr(<<Document(computeRegression(
                     [gradient |-> <<Num(1, 100000)>>,
                      objective |-> Int2Num(objective), r2 |-> Int2Num(1)],
                     previous.mVals, ROI_KEYS))>>)>>,
           1, 2, TOLERANCE, ROI_KEYS).out)

\* The remote result after the rounds objectives[from..to], one after the
\* other, starting from previous
RECURSIVE RunRounds(_, _, _, _)
RunRounds(previous, objectives, from, to) ==
  IF from > to THEN previous
  ELSE IF from = to THEN Round(previous, objectives[from])
  ELSE LET mid == (from + to) \div 2
           half == RunRounds(previous, objectives, from, mid)
       IN  IF half.iterationCount >= 0
           THEN RunRounds(half, objectives, mid + 1, to)
           ELSE half

\* No round; one improved round; two; two and a regressed one; one less
\* than the maximum iteration count; the maximum iteration count
Scripts ==
  {<<>>, <<1>>, <<1, 1>>, <<1, 1, 2>>,
   [i \in 1..(MAX_ITERATION_COUNT - 1) |-> 1],
   [i \in 1..MAX_ITERATION_COUNT |-> 1]}

\* Remote results of runs under way: the rounds of a script, from the seed
\* that drew 0
StartDocs ==
  {RunRounds(getRemoteSeed([learningRate |-> INITIAL_LEARNING_RATE,
                            roiKeys |-> ROI_KEYS],
                           [key \in KeySet |-> Int2Num(0)]),
             script, 1, Len(script)) : script \in Scripts}

(***************************************************************************)
(* State.                                                                  *)
(*   remoteDoc  the remote result the runtime stores: previousData of      *)
(*              remote.fn, remoteResult of local.fn                        *)
(*   call       the last call: what was called, its arguments (params),    *)
(*              its outcome (out), the reference of the object it gave     *)
(*              back (at) and its arguments as the call left them in the   *)
(*              store (after).  The arguments of a call are at the         *)
(*              references 1 and 2 of its store.                           *)
(* The sites' result documents are arguments of the calls: the runtime     *)
(* that keeps them is no part of the repository.                           *)
(***************************************************************************)
VARIABLES remoteDoc, call

vars == <<remoteDoc, call>>

NoCall == [op |-> "none"]

Init ==
  /\ remoteDoc \in {Undefined} \cup StartDocs
  /\ call = NoCall

\* remote.fn is called with the stored remote result, and what it calls
\* back with is stored
RemoteStep ==
  \E userResults \in UserResults(remoteDoc), rnd \in DrawsFor(remoteDoc) :
    \E done \in {RemoteFn(<<remoteDoc, userResults>>,
                           [previousData |-> 1, userResults |-> 2], rnd)} :
      /\ call' = [op |-> "remote.fn",
                   params |-> [previousData |-> remoteDoc,
                               userResults |-> userResults],
                   out |-> done.out,
                   at |-> done.at,
                   after |-> [previousData |-> done.store[1],
                              userResults |-> done.store[2]]]
      /\ remoteDoc' = IF done.out.kind = "return" /\ done.out.val # Null
                      THEN done.out.val ELSE remoteDoc

\* local.fn is called at a site with the stored remote result, and with no
\* file, with 'controls/a.txt' or with 'site/controls-1.txt'
LocalStep(p) ==
  \E previousData \in PreviousResults(remoteDoc),
     filenames \in {<<>>,
                    <<[controls |-> 0, patients |-> -1]>>,
                    <<[controls |-> 5, patients |-> -1]>>} :
    LET params == [remoteResult |-> remoteDoc,
                   previousData |-> previousData,
                   filenames |-> filenames]
        out == LocalFn(params)
    IN  /\ call' = [op |-> "local.fn", site |-> p, params |-> params, out |-> out]
        /\ UNCHANGED remoteDoc

\* runners.computeAggregate called on its own, on the stored remote result
\* and a list of the sites' results
AggregateStep ==
  /\ call = NoCall
  /\ Truthy(remoteDoc)
  /\ \E docs \in DocLists(RoundDocs(remoteDoc.mVals)) :
       \E localResults \in ResultLists(docs) :
         \E done \in {computeAggregate(<<remoteDoc, Arr(localResults)>>, 1, 2,
                                        TOLERANCE, ROI_KEYS)} :
           call' = [op |-> "computeAggregate",
                    params |-> [previousRemoteResult |-> remoteDoc,
                                localResults |-> localResults],
                    out |-> done.out,
                    at |-> done.at,
                    after |-> [previousRemoteResult |-> done.store[1],
                               localResults |-> done.store[2].array]]
  /\ UNCHANGED remoteDoc

Next ==
  \/ RemoteStep
  \/ \E p \in Sites : LocalStep(p)
  \/ AggregateStep

Spec == Init /\ [][Next]_vars

\* The protocol alone: the two entry points are called again and again, at
\* the remote and at every site
LiveNext == RemoteStep \/ \E p \in Sites : LocalStep(p)

LiveSpec ==
  /\ Init
  /\ [][LiveNext]_vars
  /\ WF_vars(RemoteStep)
  /\ \A p \in Sites : WF_vars(LocalStep(p))

(***************************************************************************)
(* The helpers called on their own (src/helpers.js exports them).          *)
(***************************************************************************)
\* Longest list of keys or values a helper is called with
MaxLen == 3

\* Keys of ROI key lists; a list may repeat a key
HelperKeys == {"Left-Hippocampus", "Right-Hippocampus"}

\* The lists over a set of elements, up to MaxLen long
Lists(elements) == UNION {[1..n -> elements] : n \in 0..MaxLen}

\* Values of the lists zipped: numbers
ZipValues == {Int2Num(0), Int2Num(1), Int2Num(-2)}

\* Elements of the lists summed: numbers (2, -3 and 0.1), and arrays of up
\* to 2 numbers
SumNumbers == {Int2Num(2), Int2Num(-3), Num(1, 10)}
SumElements ==
  SumNumbers \cup {Arr(inner) : inner \in UNION {[1..n -> SumNumbers] : n \in 0..2}}

\* One helper call per behaviour: each step below starts from no call
HelperInit ==
  /\ remoteDoc = Undefined
  /\ call = NoCall

\* unzipRoiKeyPairs(zipRoiKeyPairs(values, roiKeys), roiKeys)
ZipStep ==
  /\ call = NoCall
  /\ \E roiKeys \in Lists(HelperKeys) :
       \E values \in [1..Len(roiKeys) -> ZipValues] :
         call' = [op |-> "zipRoiKeyPairs",
                  params |-> [values |-> values, roiKeys |-> roiKeys],
                  zipped |-> zipRoiKeyPairs(values, roiKeys),
                  out |-> unzipRoiKeyPairs(zipRoiKeyPairs(values, roiKeys),
                                           roiKeys)]
  /\ UNCHANGED remoteDoc

\* sum(values)
SumStep ==
  /\ call = NoCall
  /\ \E values \in Lists(SumElements) :
       call' = [op |-> "sum", params |-> [values |-> values],
                out |-> sum(values)]
  /\ UNCHANGED remoteDoc

\* mean(values)
MeanStep ==
  /\ call = NoCall
  /\ \E values \in Lists(SumElements) :
       call' = [op |-> "mean", params |-> [values |-> values],
                out |-> mean(values)]
  /\ UNCHANGED remoteDoc

\* getRemoteSeed(options): options.roiKeys.forEach throws when roiKeys is
\* missing
SeedStep ==
  /\ call = NoCall
  /\ \E options \in
          {[learningRate |-> INITIAL_LEARNING_RATE]} \cup
          {[learningRate |-> INITIAL_LEARNING_RATE, roiKeys |-> roiKeys] :
             roiKeys \in Lists(HelperKeys)},
        rnd \in [HelperKeys -> RandomValues] :
       call' = [op |-> "getRemoteSeed", params |-> [options |-> options],
                out |-> IF "roiKeys" \notin DOMAIN options
                        THEN Throw(TypeError)
                        ELSE Return(getRemoteSeed(options, rnd))]
  /\ UNCHANGED remoteDoc

\* Regions of interest {max, min}, sample sizes, epsilons and the variates
\* the Laplace source draws
RoiSet ==
  {[max |-> Int2Num(mx), min |-> Int2Num(mn)] : mx \in {1, 3}, mn \in {0, 1}}
SampleSizes == {Int2Num(1), Int2Num(3)}
Epsilons == {Int2Num(1), Num(1, 10)}

\* calculateSensitivity(roi, sampleSize)
SensitivityStep ==
  /\ call = NoCall
  /\ \E roi \in RoiSet, sampleSize \in SampleSizes :
       call' = [op |-> "calculateSensitivity",
                params |-> [roi |-> roi, sampleSize |-> sampleSize],
                out |-> calculateSensitivity(roi, sampleSize)]
  /\ UNCHANGED remoteDoc

\* calculateLaplaceScale(roi, sampleSize, epsilon)
ScaleStep ==
  /\ call = NoCall
  /\ \E roi \in RoiSet, sampleSize \in SampleSizes, epsilon \in Epsilons :
       call' = [op |-> "calculateLaplaceScale",
                params |-> [roi |-> roi, sampleSize |-> sampleSize,
                            epsilon |-> epsilon],
                out |-> calculateLaplaceScale(roi, sampleSize, epsilon)]
  /\ UNCHANGED remoteDoc

\* addNoise(value, roi, sampleSize, epsilon); variate is what the Laplace
\* source draws in this call
NoiseStep ==
  /\ call = NoCall
  /\ \E value \in {Int2Num(0), Int2Num(2)}, roi \in RoiSet,
        sampleSize \in SampleSizes, epsilon \in Epsilons,
        variate \in {Int2Num(-1), Int2Num(0), Num(3, 2)} :
       call' = [op |-> "addNoise",
                params |-> [value |-> value, roi |-> roi,
                            sampleSize |-> sampleSize, epsilon |-> epsilon],
                variate |-> variate,
                out |-> addNoise(value, roi, sampleSize, epsilon, variate)]
  /\ UNCHANGED remoteDoc

\* unzipRoiKeyPairs(obj, roiKeys) on a plain object holding some of the
\* helper keys: it may lack requested keys
UnzipStep ==
  /\ call = NoCall
  /\ \E obj \in UNION {{Obj(f) : f \in [held -> ZipValues]} :
                         held \in SUBSET HelperKeys},
        roiKeys \in Lists(HelperKeys) :
       call' = [op |-> "unzipRoiKeyPairs",
                params |-> [obj |-> obj, roiKeys |-> roiKeys],
                out |-> Return(unzipRoiKeyPairs(obj, roiKeys))]
  /\ UNCHANGED remoteDoc

\* zipRoiKeyPairs(values, roiKeys) with lists of any lengths
ZipListsStep ==
  /\ call = NoCall
  /\ \E values \in Lists(ZipValues), roiKeys \in Lists(HelperKeys) :
       call' = [op |-> "zipRoiKeyPairs of lists",
                params |-> [values |-> values, roiKeys |-> roiKeys],
                out |-> Return(zipRoiKeyPairs(values, roiKeys))]
  /\ UNCHANGED remoteDoc

HelperNext ==
  \/ ZipStep
  \/ SumStep
  \/ MeanStep
  \/ SeedStep
  \/ SensitivityStep
  \/ ScaleStep
  \/ NoiseStep
  \/ UnzipStep
  \/ ZipListsStep

HelperSpec == HelperInit /\ [][HelperNext]_vars

(***************************************************************************)
(* Vocabulary of the properties.                                           *)
(***************************************************************************)
RemoteCalled == call.op = "remote.fn"
AggregateCalled == call.op = "computeAggregate"

\* The call had a previous remote result
HadPrevious == Truthy(call.params.previousData)

\* R is non-empty and every member's previousAggregateMVals equals S.mVals
InSync(S, R) ==
  /\ IsArr(R)
  /\ R.array # <<>>
  /\ \A i \in DOMAIN R.array : R.array[i].previousAggregateMVals = S.mVals

NoOp == Return(Null)

\* The call gave back a remote result (not null, not the stop symbol)
GaveState(out) ==
  out.kind = "return" /\ out.val # Null /\ out.val # STOP

\* The gradient the round aggregates from the results R, by ROI key
RoundGradient(results) ==
  zipRoiKeyPairs(columnWiseSum(getGradientValues(results, ROI_KEYS).val),
                 ROI_KEYS)

\* {gradient, mVals, objective} of S
Snapshot(S) ==
  [gradient |-> S.gradient, mVals |-> S.mVals, objective |-> S.objective]

(***************************************************************************)
(* Properties of remote.fn.                                                *)
(***************************************************************************)
\* C1 (sync gate).  For a call of remote.fn with a previous result S and
\* results R: unless R is non-empty and every member's
\* previousAggregateMVals equals S.mVals, the call gives the no-op (null)
\* and the remote result stays S.  So a call that goes on to aggregate, or
\* ends any other way than the no-op, had R in sync.
C1_SyncGate ==
  (RemoteCalled /\ HadPrevious) =>
    LET S == call.params.previousData
        R == call.params.userResults
    IN  ~InSync(S, R) => (call.out = NoOp /\ remoteDoc = S)

\* A call with two results, one in sync and one not, gave the no-op
C1_Witness ==
  /\ RemoteCalled
  /\ HadPrevious
  /\ IsArr(call.params.userResults)
  /\ \E i, j \in DOMAIN call.params.userResults.array :
       /\ call.params.userResults.array[i].previousAggregateMVals
            = call.params.previousData.mVals
       /\ call.params.userResults.array[j].previousAggregateMVals
            # call.params.previousData.mVals
  /\ call.out = NoOp
  /\ remoteDoc = call.params.previousData

\* The echo local.fn and computeRegression put in a result computed against
\* S: pickOrderedValues(ROI_KEYS, S.mVals)
EchoOf(S) == pickOrderedValues(Arr(ROI_KEYS), S.mVals, FALSE)

\* C2 (round acceptance).  For a call of remote.fn with a previous result S
\* that is not complete and a non-empty R whose every member carries the
\* echo local.fn writes for S's mVals, the call does not give the no-op: it
\* gives a new remote result.
C2_RoundAcceptance ==
  (/\ RemoteCalled
   /\ HadPrevious
   /\ ~call.params.previousData.complete
   /\ IsArr(call.params.userResults)
   /\ call.params.userResults.array # <<>>
   /\ \A i \in DOMAIN call.params.userResults.array :
        call.params.userResults.array[i].previousAggregateMVals
          = EchoOf(call.params.previousData))
  => GaveState(call.out)

\* C3 (termination).  When remote.fn and every site's local.fn keep being
\* called, the remote result eventually is complete.
C3_Termination == <>(Truthy(remoteDoc) /\ remoteDoc.complete)

\* C4 (max-iteration gate first).  For a call of remote.fn with a previous
\* result S whose iterationCount is at least MAX_ITERATION_COUNT, whatever
\* the results, the call gives S with complete set and nothing else changed.
C4_MaxGateFirst ==
  (/\ RemoteCalled
   /\ HadPrevious
   /\ call.params.previousData.iterationCount >= MAX_ITERATION_COUNT)
  => call.out = Return([call.params.previousData EXCEPT !.complete = TRUE])

\* C5 (convergence).  For a call of remote.fn with a previous result S below
\* the iteration limit and results in sync whose summed gradient has norm2
\* below TOLERANCE, the call gives a result with complete set and the mVals
\* and learningRate of S.
C5_Convergence ==
  (/\ RemoteCalled
   /\ HadPrevious
   /\ InSync(call.params.previousData, call.params.userResults)
   /\ call.params.previousData.iterationCount < MAX_ITERATION_COUNT
   /\ BelowTolerance(RoundGradient(call.params.userResults.array),
                     TOLERANCE, ROI_KEYS))
  => /\ GaveState(call.out)
     /\ call.out.val.complete
     /\ call.out.val.mVals = call.params.previousData.mVals
     /\ call.out.val.learningRate = call.params.previousData.learningRate

\* C7 (complete is final).  For a call of remote.fn with a previous result S
\* that is complete, whatever the results: the remote result is still S
\* after the call, and a result the call gives is S.
C7_CompleteIsFinal ==
  (RemoteCalled /\ HadPrevious /\ call.params.previousData.complete) =>
    /\ remoteDoc = call.params.previousData
    /\ (call.out.kind = "return" /\ call.out.val # Null)
         => call.out.val = call.params.previousData

\* A complete S was given back unchanged by a call with results in sync
C7_Witness ==
  /\ RemoteCalled
  /\ HadPrevious
  /\ call.params.previousData.complete
  /\ InSync(call.params.previousData, call.params.userResults)
  /\ call.out = Return(call.params.previousData)

(***************************************************************************)
(* Properties of the round computeAggregate computes.                      *)
(***************************************************************************)
\* The call's previous remote result and its local results
AggPrevious == call.params.previousRemoteResult
AggResults == call.params.localResults

\* norm2 of the gradient summed over the call's results
RoundNorm == norm2(unzipRoiKeyPairs(RoundGradient(AggResults), ROI_KEYS))

\* That norm is not strictly less than TOLERANCE
NormAtLeastTolerance == ~JsLt(RoundNorm, TOLERANCE)

\* The call's results all echo the previous result's mVals
AggInSync == InSync(AggPrevious, Arr(AggResults))

\* C6 as stated (stop on large gradient).  A round of computeAggregate whose
\* summed gradient has norm2 greater than or equal to the tolerance stops
\* the iteration.
C6_StopAtOrAboveTolerance ==
  (AggregateCalled /\ call.out.kind = "return" /\ NormAtLeastTolerance)
  => call.out.val = STOP

\* C6, amended (stop below the tolerance).  A round of computeAggregate
\* stops the iteration exactly when the norm2 of its summed gradient is
\* strictly less than the tolerance; a round whose summed gradient has norm2
\* greater than or equal to the tolerance gives a next result that is not
\* complete and counts one more iteration.
C6_StopBelowTolerance ==
  (AggregateCalled /\ call.out.kind = "return") =>
    /\ (call.out.val = STOP) <=> ~NormAtLeastTolerance
    /\ NormAtLeastTolerance =>
         /\ ~call.out.val.complete
         /\ call.out.val.iterationCount = AggPrevious.iterationCount + 1

\* A round with results in sync and the summed gradient exactly at the
\* tolerance went on
C6_Witness ==
  /\ AggregateCalled
  /\ call.out.kind = "return"
  /\ AggInSync
  /\ RoundNorm = TOLERANCE
  /\ call.out.val # STOP
  /\ ~call.out.val.complete

\* C8 (regressed round).  A round of computeAggregate that goes on with an
\* objective strictly greater than S.previousBestFit.objective has
\* learningRate S.learningRate / 2 and previousBestFit S.previousBestFit.
C8_RegressedRound ==
  (/\ AggregateCalled
   /\ GaveState(call.out)
   /\ JsGt(call.out.val.objective, AggPrevious.previousBestFit.objective))
  => /\ call.out.val.learningRate
          = JsDiv(AggPrevious.learningRate, Int2Num(2))
     /\ call.out.val.previousBestFit = AggPrevious.previousBestFit

\* A round in sync went on with an objective above the previous best fit's
C8_Witness ==
  /\ AggregateCalled
  /\ GaveState(call.out)
  /\ AggInSync
  /\ JsGt(call.out.val.objective, AggPrevious.previousBestFit.objective)
  /\ call.out.val.learningRate # AggPrevious.learningRate

\* C9 (improved round).  A round of computeAggregate that goes on with an
\* objective less than or equal to S.previousBestFit.objective has
\* learningRate S.learningRate and previousBestFit the {gradient, mVals,
\* objective} S had before the round.
C9_ImprovedRound ==
  (/\ AggregateCalled
   /\ GaveState(call.out)
   /\ JsLe(call.out.val.objective, AggPrevious.previousBestFit.objective))
  => /\ call.out.val.learningRate = AggPrevious.learningRate
     /\ call.out.val.previousBestFit = Snapshot(AggPrevious)

\* A round in sync went on with an objective equal to the previous best
\* fit's, and the best fit it kept is not the one S held
C9_Witness ==
  /\ AggregateCalled
  /\ GaveState(call.out)
  /\ AggInSync
  /\ IsNum(AggPrevious.previousBestFit.objective)
  /\ call.out.val.objective = AggPrevious.previousBestFit.objective
  /\ call.out.val.previousBestFit # AggPrevious.previousBestFit

\* C10 (coefficient update).  In a round of computeAggregate that goes on,
\* the new mVals are one descent step from the best fit the round selected
\* (the new previousBestFit) with the learning rate the round selected.
C10_StepFromSelectedFit ==
  (AggregateCalled /\ GaveState(call.out)) =>
    call.out.val.mVals =
      zipRoiKeyPairs(
        recalculateMVals(
          call.out.val.learningRate,
          unzipRoiKeyPairs(call.out.val.previousBestFit.mVals, ROI_KEYS),
          unzipRoiKeyPairs(call.out.val.previousBestFit.gradient, ROI_KEYS)),
        ROI_KEYS)

\* The sum of the numbers vs, starting from 0
Total(vs) == Fold(vs, 1, Int2Num(0))

\* C11 (aggregation).  A round of computeAggregate that goes on, on results
\* {gradient, objective, r2, previousAggregateMVals} as computeRegression
\* returns them, has for objective the sum of the results' objectives, for
\* gradient the per-key sum of the results' gradients, and for r2 the mean
\* of the results' r2.
C11_Aggregation ==
  (/\ AggregateCalled
   /\ GaveState(call.out)
   /\ \A i \in DOMAIN AggResults :
        /\ IsNum(AggResults[i].objective)
        /\ IsNum(AggResults[i].r2)
        /\ IsPlain(AggResults[i].gradient))
  => /\ call.out.val.objective
          = Total([i \in DOMAIN AggResults |-> AggResults[i].objective])
     /\ call.out.val.gradient
          = Obj([key \in KeySet |->
                   Total([i \in DOMAIN AggResults |->
                            Get(AggResults[i].gradient, key)])])
     /\ call.out.val.r2
          = JsDiv(Total([i \in DOMAIN AggResults |-> AggResults[i].r2]),
                  Int2Num(Len(AggResults)))

\* C12 (history).  The result of a round of computeAggregate that goes on
\* has a history with one entry per round so far, whose last entry is the
\* {gradient, mVals, objective, r2, learningRate} of the result, and whose
\* entries have no history of their own.
C12_History ==
  (AggregateCalled /\ GaveState(call.out)) =>
    IF "history" \notin DOMAIN call.out.val THEN FALSE
    ELSE LET history == call.out.val.history.array
         IN  /\ Len(history) = call.out.val.iterationCount
             /\ history[Len(history)]
                  = [gradient |-> call.out.val.gradient,
                     mVals |-> call.out.val.mVals,
                     objective |-> call.out.val.objective,
                     r2 |-> call.out.val.r2,
                     learningRate |-> call.out.val.learningRate]
             /\ \A i \in DOMAIN history : "history" \notin DOMAIN history[i]

\* C17 (contributor reset).  The result of a round of computeAggregate that
\* goes on has an empty contributors list.
C17_ContributorReset ==
  (AggregateCalled /\ GaveState(call.out)) =>
    IF "contributors" \notin DOMAIN call.out.val THEN FALSE
    ELSE call.out.val.contributors = Arr(<<>>)

\* C13 (seed).  A call of remote.fn without a previous result gives, whatever
\* the results, a remote result with learningRate INITIAL_LEARNING_RATE,
\* gradient 0 and mVals in [0, 1) for every ROI key, objective +Infinity,
\* iterationCount 0 and a previousBestFit with the same gradient, mVals and
\* objective; that seed is the remote result after the call.
C13_Seed ==
  (RemoteCalled /\ ~HadPrevious) =>
    /\ GaveState(call.out)
    /\ remoteDoc = call.out.val
    /\ call.out.val.learningRate = INITIAL_LEARNING_RATE
    /\ DOMAIN call.out.val.gradient.object = KeySet
    /\ DOMAIN call.out.val.mVals.object = KeySet
    /\ \A key \in KeySet :
         /\ Get(call.out.val.gradient, key) = Int2Num(0)
         /\ JsGe(Get(call.out.val.mVals, key), Int2Num(0))
         /\ JsLt(Get(call.out.val.mVals, key), Int2Num(1))
    /\ call.out.val.objective = Infinity
    /\ call.out.val.iterationCount = 0
    /\ call.out.val.previousBestFit = Snapshot(call.out.val)

\* A call without a previous result but with a result delivered gave a seed
\* with a coefficient that is not 0
C13_Witness ==
  /\ RemoteCalled
  /\ ~HadPrevious
  /\ IsArr(call.params.userResults)
  /\ call.params.userResults.array # <<>>
  /\ GaveState(call.out)
  /\ \E key \in KeySet : JsGt(Get(call.out.val.mVals, key), Int2Num(0))

(***************************************************************************)
(* Properties of local.fn.                                                 *)
(***************************************************************************)
LocalCalled == call.op = "local.fn"

\* The call found the echo of its previous result equal to the vector of the
\* current remote result's mVals
EchoUnchanged ==
  /\ Truthy(call.params.previousData)
  /\ call.params.previousData.previousAggregateMVals
       = EchoOf(call.params.remoteResult)

\* C14 (local no-op).  A call of local.fn gives the no-op (null, no error)
\* exactly when there is no remote result or the previous result's
\* previousAggregateMVals equals the vector of the remote result's mVals,
\* and the stored remote result is then as it was.  In every other case it
\* goes on towards a regression: it sorts the file names and reads the
\* files, and does not end with the no-op.
C14_LocalNoOp ==
  LocalCalled =>
    /\ (call.out = NoOp)
         <=> (~Truthy(call.params.remoteResult) \/ EchoUnchanged)
    /\ remoteDoc = call.params.remoteResult

\* A site that had computed against the current remote result was called
\* again and got the no-op
C14_Witness ==
  /\ LocalCalled
  /\ Truthy(call.params.remoteResult)
  /\ EchoUnchanged
  /\ call.out = NoOp

(***************************************************************************)
(* Properties of incomplete and malformed rounds.                          *)
(***************************************************************************)
\* The number of sites whose result the call of remote.fn was given
Reported ==
  IF IsArr(call.params.userResults) THEN Len(call.params.userResults.array)
  ELSE 0

\* C15 (no partial aggregation).  A call of remote.fn with a previous result
\* and results from fewer sites than take part gives the no-op, and the
\* remote result is unchanged.
C15_NoPartialAggregation ==
  (RemoteCalled /\ HadPrevious /\ Reported < NumSites)
  => (call.out = NoOp /\ remoteDoc = call.params.previousData)

\* The result lacks its gradient, its objective or its r2
Malformed(result) ==
  \/ result.gradient = Undefined
  \/ result.r2 = Undefined
  \/ /\ result.objective = Undefined
     /\ "data" \in DOMAIN result => result.data.objective = Undefined

\* C16 (malformed contribution).  A round of computeAggregate given a result
\* that lacks gradient, objective or r2 gives no next remote result and no
\* stop: the round stays pending.
C16_MalformedDropped ==
  (/\ AggregateCalled
   /\ \E i \in DOMAIN AggResults : Malformed(AggResults[i]))
  => call.out.kind # "return"

(***************************************************************************)
(* Properties of the helpers.                                              *)
(***************************************************************************)
ZipCalled == call.op = "zipRoiKeyPairs"
SumCalled == call.op = "sum"
MeanCalled == call.op = "mean"
SeedCalled == call.op = "getRemoteSeed"

\* No key occurs twice in keys
Distinct(keys) ==
  \A i, j \in DOMAIN keys : keys[i] = keys[j] => i = j

\* C18 as stated (zip/unzip round trip).  For any key list and value list of
\* equal length, a repeated key included,
\* unzipRoiKeyPairs(zipRoiKeyPairs(values, keys), keys) is values.
C18_RoundTripAnyKeys ==
  ZipCalled => call.out = call.params.values

\* C18, amended.  For a key list without a repeated key and a value list of
\* equal length, unzipRoiKeyPairs(zipRoiKeyPairs(values, keys), keys) is
\* values; with a repeated key, every position of that key holds the value
\* given at the key's last position.
C18_RoundTripDistinctKeys ==
  ZipCalled =>
    LET keys == call.params.roiKeys
        values == call.params.values
    IN  /\ Len(call.out) = Len(values)
        /\ Distinct(keys) => call.out = values
        /\ \A i \in DOMAIN keys :
             \E j \in DOMAIN keys :
               /\ keys[j] = keys[i]
               /\ \A l \in DOMAIN keys : keys[l] = keys[i] => l <= j
               /\ call.out[i] = values[j]

\* Two distinct keys with two different values came back as given
C18_Witness ==
  /\ ZipCalled
  /\ Len(call.params.roiKeys) = 2
  /\ Distinct(call.params.roiKeys)
  /\ call.params.values[1] # call.params.values[2]
  /\ call.out = call.params.values

RECURSIVE NumbersFrom(_, _)
\* The numbers of values[i..], those inside its arrays included, in order
NumbersFrom(values, i) ==
  IF i > Len(values) THEN <<>>
  ELSE (IF IsArr(values[i]) THEN values[i].array ELSE <<values[i]>>)
         \o NumbersFrom(values, i + 1)

\* C19 (mean and sum).  sum(v) is the sum of all the numbers of v, those of
\* its nested arrays included, when v holds a number; mean(v) is that sum
\* divided by the length of v; mean of the empty list is 0.
C19_MeanAndSum ==
  /\ (SumCalled /\ NumbersFrom(call.params.values, 1) # <<>>)
       => call.out = Total(NumbersFrom(call.params.values, 1))
  /\ (MeanCalled /\ NumbersFrom(call.params.values, 1) # <<>>)
       => call.out = JsDiv(Total(NumbersFrom(call.params.values, 1)),
                           Int2Num(Len(call.params.values)))
  /\ (MeanCalled /\ call.params.values = <<>>) => call.out = Int2Num(0)

\* mean of a list with a nested array of two numbers: the sum is divided by
\* the length of the list, not by the count of the numbers
C19_Witness ==
  /\ MeanCalled
  /\ Len(call.params.values) = 2
  /\ Len(NumbersFrom(call.params.values, 1)) = 3
  /\ call.out = JsDiv(Total(NumbersFrom(call.params.values, 1)), Int2Num(2))

\* C20 (configuration error).  getRemoteSeed called with an empty or a
\* missing ROI key list ends as an error: it gives no seed.
C20_EmptyKeysRejected ==
  (/\ SeedCalled
   /\ "roiKeys" \in DOMAIN call.params.options
        => call.params.options.roiKeys = <<>>)
  => call.out.kind # "return"

\* C21 (noise calibration).  calculateSensitivity(roi, n) is
\* (roi.max - roi.min) / n; calculateLaplaceScale(roi, n, epsilon) is that
\* divided by epsilon; addNoise(value, roi, n, epsilon) is value plus the
\* noise the Laplace source draws in that call at exactly that scale.
\* Each quotient is the rounded quotient of the numbers: the difference is
\* rounded, then divided by n and rounded, then divided by epsilon and
\* rounded.
C21_NoiseCalibration ==
  LET range == JsSub(call.params.roi.max, call.params.roi.min)
  IN  /\ call.op = "calculateSensitivity" =>
           call.out = JsDiv(range, call.params.sampleSize)
      /\ call.op = "calculateLaplaceScale" =>
           call.out = JsDiv(JsDiv(range, call.params.sampleSize),
                            call.params.epsilon)
      /\ call.op = "addNoise" =>
           call.out = JsAdd(call.params.value,
                            LaplaceNoise(JsDiv(JsDiv(range, call.params.sampleSize),
                                               call.params.epsilon),
                                         call.variate))

\* addNoise with epsilon 0.1, a sample of 3 and a draw that is not 0 changed
\* the value
C21_Witness ==
  /\ call.op = "addNoise"
  /\ call.params.epsilon = Num(1, 10)
  /\ call.params.sampleSize = Int2Num(3)
  /\ call.variate # Int2Num(0)
  /\ call.params.roi.max # call.params.roi.min
  /\ call.out # call.params.value

(***************************************************************************)
(* Properties of the sequence of rounds.                                   *)
(***************************************************************************)
\* C22 (single consumption).  The results a round of computeAggregate was
\* given in sync with S are not in sync with the remote result the round
\* gives: the sync gate does not accept them a second time.
C22_SingleConsumption ==
  (AggregateCalled /\ GaveState(call.out) /\ AggInSync)
  => ~InSync(call.out.val, Arr(AggResults))

\* C23 (best-fit anchor).  The previousBestFit of the remote result a round
\* of computeAggregate gives has an objective no greater than that of the
\* previousBestFit before the round (rounds with a numeric objective).
C23_AnchorNeverWorse ==
  (AggregateCalled /\ GaveState(call.out) /\ IsNum(call.out.val.objective))
  => JsLe(call.out.val.previousBestFit.objective,
          AggPrevious.previousBestFit.objective)

\* C24 (iteration counting).  The seed remote.fn gives has iterationCount 0;
\* a round of computeAggregate that goes on gives iterationCount one more
\* than before; a call of remote.fn with a previous result never lowers the
\* remote result's iterationCount, and leaves it as it was when the call
\* gives the no-op or marks the result complete.
C24_IterationCounting ==
  /\ (RemoteCalled /\ ~HadPrevious) =>
       (GaveState(call.out) /\ call.out.val.iterationCount = 0)
  /\ (RemoteCalled /\ HadPrevious) =>
       /\ remoteDoc.iterationCount >= call.params.previousData.iterationCount
       /\ (call.out = NoOp \/ (GaveState(call.out) /\ call.out.val.complete))
            => remoteDoc.iterationCount
                 = call.params.previousData.iterationCount
  /\ (AggregateCalled /\ GaveState(call.out)) =>
       call.out.val.iterationCount = AggPrevious.iterationCount + 1

\* A round in sync on a result that had counted rounds before went on and
\* counted one more
C24_Witness ==
  /\ AggregateCalled
  /\ GaveState(call.out)
  /\ AggInSync
  /\ AggPrevious.iterationCount >= 1
  /\ call.out.val.iterationCount = AggPrevious.iterationCount + 1

\* The keys of the remote result's gradient and of its mVals are the ROI
\* keys
HasRoiKeys(result) ==
  /\ "gradient" \in DOMAIN result
  /\ "mVals" \in DOMAIN result
  /\ IsPlain(result.gradient)
  /\ IsPlain(result.mVals)
  /\ DOMAIN result.gradient.object = KeySet
  /\ DOMAIN result.mVals.object = KeySet

\* C25 (key sets).  Every remote result remote.fn gives (seed or complete),
\* every one a round of computeAggregate gives, and the stored remote result
\* have gradient and mVals keyed by exactly the ROI keys.
C25_KeySets ==
  /\ (RemoteCalled /\ GaveState(call.out)) => HasRoiKeys(call.out.val)
  /\ (AggregateCalled /\ GaveState(call.out)) => HasRoiKeys(call.out.val)
  /\ Truthy(remoteDoc) => HasRoiKeys(remoteDoc)

\* remote.fn gave a complete remote result, keyed by the ROI keys
C25_Witness ==
  /\ RemoteCalled
  /\ HadPrevious
  /\ GaveState(call.out)
  /\ call.out.val.complete
  /\ ~call.params.previousData.complete
  /\ HasRoiKeys(call.out.val)

\* C26 (positive learning rate).  The learningRate of the seed, of the
\* stored remote result and of every remote result a round of
\* computeAggregate gives is strictly greater than 0.
C26_PositiveLearningRate ==
  /\ (RemoteCalled /\ GaveState(call.out)) =>
       JsGt(call.out.val.learningRate, Int2Num(0))
  /\ (AggregateCalled /\ GaveState(call.out)) =>
       JsGt(call.out.val.learningRate, Int2Num(0))
  /\ Truthy(remoteDoc) => JsGt(remoteDoc.learningRate, Int2Num(0))

\* A worse round on a result whose learning rate had been halved before
\* halved it again, and it is still above 0
C26_Witness ==
  /\ AggregateCalled
  /\ GaveState(call.out)
  /\ JsLt(AggPrevious.learningRate, INITIAL_LEARNING_RATE)
  /\ JsLt(call.out.val.learningRate, AggPrevious.learningRate)
  /\ JsGt(call.out.val.learningRate, Int2Num(0))

RECURSIVE HalvedWithin(_, _)
\* rate is INITIAL_LEARNING_RATE halved at most budget times
HalvedWithin(rate, budget) ==
  IF rate = INITIAL_LEARNING_RATE THEN TRUE
  ELSE IF budget = 0 \/ ~JsLt(rate, INITIAL_LEARNING_RATE) THEN FALSE
  ELSE HalvedWithin(JsMul(rate, Int2Num(2)), budget - 1)

\* C30 (learning-rate shape).  A round of computeAggregate that goes on
\* gives the learning rate it was given, or half of it exactly when the
\* round is worse than the previous best fit; a round on the seed never
\* halves it; and every learning rate is INITIAL_LEARNING_RATE halved once
\* per worse round, at most iterationCount times.
C30_LearningRateShape ==
  /\ (AggregateCalled /\ GaveState(call.out)) =>
       /\ JsLe(call.out.val.learningRate, AggPrevious.learningRate)
       /\ IF JsGt(call.out.val.objective,
                  AggPrevious.previousBestFit.objective)
          THEN JsMul(call.out.val.learningRate, Int2Num(2))
                 = AggPrevious.learningRate
          ELSE call.out.val.learningRate = AggPrevious.learningRate
       /\ AggPrevious.iterationCount = 0 =>
            call.out.val.learningRate = INITIAL_LEARNING_RATE
       /\ HalvedWithin(call.out.val.learningRate,
                       call.out.val.iterationCount)
  /\ Truthy(remoteDoc) =>
       HalvedWithin(remoteDoc.learningRate, remoteDoc.iterationCount)

\* The first round on a seed, with a numeric objective, kept the learning
\* rate
C30_Witness ==
  /\ AggregateCalled
  /\ GaveState(call.out)
  /\ AggPrevious.iterationCount = 0
  /\ AggPrevious.previousBestFit.objective = Infinity
  /\ IsNum(call.out.val.objective)
  /\ call.out.val.learningRate = INITIAL_LEARNING_RATE

\* C29 (iteration cap).  The stored remote result never has an
\* iterationCount above MAX_ITERATION_COUNT, and remote.fn called on a
\* result whose iterationCount has reached MAX_ITERATION_COUNT performs no
\* aggregation: it calls back with null, or with that result marked
\* complete, its iterationCount as it was.
C29_IterationCap ==
  /\ Truthy(remoteDoc) => remoteDoc.iterationCount <= MAX_ITERATION_COUNT
  /\ (/\ RemoteCalled
      /\ HadPrevious
      /\ call.params.previousData.iterationCount >= MAX_ITERATION_COUNT) =>
       \/ call.out = NoOp
       \/ /\ GaveState(call.out)
          /\ call.out.val.complete
          /\ call.out.val.iterationCount
               = call.params.previousData.iterationCount

\* remote.fn was called on a result at the maximum count with the sites in
\* sync, and marked it complete
C29_Witness ==
  /\ RemoteCalled
  /\ HadPrevious
  /\ call.params.previousData.iterationCount = MAX_ITERATION_COUNT
  /\ InSync(call.params.previousData, call.params.userResults)
  /\ GaveState(call.out)
  /\ call.out.val.complete
  /\ call.out.val.iterationCount = MAX_ITERATION_COUNT

\* C28 (missing key).  unzipRoiKeyPairs of an object that lacks one of the
\* requested keys fails, and so does zipRoiKeyPairs of a value list and a
\* key list of different lengths: neither returns a result.
C28_MissingKeyFails ==
  /\ (/\ call.op = "unzipRoiKeyPairs"
      /\ \E i \in DOMAIN call.params.roiKeys :
           call.params.roiKeys[i] \notin DOMAIN call.params.obj.object)
       => call.out.kind = "throw"
  /\ (/\ call.op = "zipRoiKeyPairs of lists"
      /\ Len(call.params.values) # Len(call.params.roiKeys))
       => call.out.kind = "throw"

\* C27 (no in-place mutation).  remote.fn leaves params.previousData and
\* the members of params.userResults in the store as they were passed,
\* whatever it calls back with (a seed, null, the previous result marked
\* complete, or an exception), and computeAggregate leaves
\* previousRemoteResult and localResults as they were passed; a remote
\* result either gives back is a new object: its reference is none of the
\* references 1 and 2 of the arguments.
C27_NoInPlaceMutation ==
  (RemoteCalled \/ AggregateCalled) =>
    /\ call.after = call.params
    /\ GaveState(call.out) => call.at > 2

\* remote.fn gave back the previous result marked complete, a new object,
\* and the previous result it was passed is still not complete in the store
C27_Witness ==
  /\ RemoteCalled
  /\ HadPrevious
  /\ ~call.params.previousData.complete
  /\ GaveState(call.out)
  /\ call.out.val.complete
  /\ call.out.val # call.params.previousData
  /\ call.at > 2
  /\ ~call.after.previousData.complete

\* The lists holding the members of list in another order (list included)
Reorderings(list) ==
  {[i \in DOMAIN list |-> list[order[i]]] :
     order \in {f \in [DOMAIN list -> DOMAIN list] :
                  \A i, j \in DOMAIN list : f[i] = f[j] => i = j}}

\* C31 (order independence).  What computeAggregate gives for a list of
\* local results (gradient, objective, r2, learningRate, previousBestFit,
\* mVals, or the stop symbol or exception) is what it gives for the same
\* results in any other order, and so is the decision of remote.fn's sync
\* gate on userResults.
C31_OrderIndependence ==
  /\ AggregateCalled =>
       \A permuted \in Reorderings(AggResults) :
         computeAggregate(<<AggPrevious, Arr(permuted)>>, 1, 2,
                          TOLERANCE, ROI_KEYS).out = call.out
  /\ (RemoteCalled /\ HadPrevious /\ IsArr(call.params.userResults)) =>
       \A permuted \in Reorderings(call.params.userResults.array),
          rnd \in RandomDraws :
         RemoteFn(<<call.params.previousData, Arr(permuted)>>,
                  [previousData |-> 1, userResults |-> 2], rnd).out
           = call.out

=============================================================================
